---- MODULE Spec2Model ----
(***************************************************************************)
(* collisions.ipynb: a notebook that estimates electron-proton collision   *)
(* frequencies in the solar corona and the solar wind.  The notebook is a  *)
(* flat sequence of statements spread over seven code cells.  A statement  *)
(* is identified by the line of src/collisions.ipynb on which it starts,   *)
(* and pc holds the line of the next statement to execute.                 *)
(*                                                                         *)
(* A float is kept by the start of its decimal expansion: m holds its      *)
(* first four significant digits (1000 <= m <= 9999, or m = 0 for zero),   *)
(* e the exponent of the first digit, and rest tells whether a digit other *)
(* than 0 follows the fourth, so that the float lies in                    *)
(* [m, m + 1) * 10^(e - 3) and is m * 10^(e - 3) exactly when rest is      *)
(* FALSE.                                                                  *)
(* A quantity is a number with a unit and its provenance: from is          *)
(* "literal" or the name of the library function that returned it, and     *)
(* call is the index in the call log of the call that returned it (0 for   *)
(* a literal).                                                             *)
(***************************************************************************)
EXTENDS Integers, Sequences, FiniteSets

VARIABLES pc, ns, binders, out, calls, raised, err, exec_count

vars == <<pc, ns, binders, out, calls, raised, err, exec_count>>

\* Number of cells the kernel had executed before the run (the recorded run
\* started at prompt 65, so the kernel was not fresh).
MaxPriorExecutions == 2

\* ------------------------------------------------------------------------
\* Numbers, units and quantities
\* ------------------------------------------------------------------------

\* A natural number too wide for one machine integer: its digits in base
\* 2^15 = 32768, most significant first, without leading zeros.
RECURSIVE ToBig(_)
ToBig(k) == IF k = 0 THEN <<>> ELSE Append(ToBig(k \div 32768), k % 32768)

\* x * c for x > 0 and 0 < c < 2^15.  Digit i of x times c leaves a low part
\* in its own place and a high part one place up; place r of the product
\* collects the two parts that fall on it, and takes a carry when a lower
\* place overflows and every place in between is full.
BigTimes(x, c) ==
    LET n          == Len(x)
        Sum(r)     == (IF r >= 2 THEN (x[r - 1] * c) % 32768 ELSE 0)
                      + (IF r <= n THEN (x[r] * c) \div 32768 ELSE 0)
        CarryIn(r) == \E j \in r + 1 .. n + 1 :
                         /\ Sum(j) >= 32768
                         /\ \A t \in r + 1 .. j - 1 : Sum(t) = 32768 - 1
        full       == [r \in 1 .. n + 1 |->
                         (Sum(r) + (IF CarryIn(r) THEN 1 ELSE 0)) % 32768]
    IN  IF full[1] = 0 THEN Tail(full) ELSE full

RECURSIVE BigTimesPow5(_, _)
\* x * 5^k, six powers of five (15625) at a time.
BigTimesPow5(x, k) ==
    IF x = <<>> \/ k = 0 THEN x
    ELSE IF k >= 6 THEN BigTimesPow5(BigTimes(x, 15625), k - 6)
    ELSE BigTimesPow5(BigTimes(x, 5), k - 1)

\* 2^b for b < 15.
Pow2(b) == <<1, 2, 4, 8, 16, 32, 64, 128, 256, 512, 1024, 2048, 4096, 8192,
             16384>>[b + 1]

\* The number of bits of x > 0.
BitLength(x) == 15 * (Len(x) - 1) + Cardinality({b \in 0 .. 14 : Pow2(b) <= x[1]})

\* Bit i of x, bit 0 being the lowest.
Bit(x, i) == (x[Len(x) - i \div 15] \div Pow2(i % 15)) % 2

\* Whether one of the bits of x below bit i is set.
AnyBitBelow(x, i) ==
    \/ x[Len(x) - i \div 15] % Pow2(i % 15) # 0
    \/ \E j \in Len(x) - i \div 15 + 1 .. Len(x) : x[j] # 0

\* The sign of float(x) - x for a natural number x < 2^1024: the number is
\* stored as the nearest float, whose significand has 53 bits (ties go to
\* the even significand), which lies below (-1), on (0) or above (1) it.  A
\* number of at most 53 bits is stored as it is.  Otherwise the first bit
\* that does not fit and the bits below it decide.
FloatError(x) ==
    LET n      == BitLength(x)
        half   == Bit(x, n - 54)
        sticky == AnyBitBelow(x, n - 54)
        odd    == Bit(x, n - 53) = 1
    IN  IF x = <<>> \/ n <= 53 THEN 0
        ELSE IF half = 0 THEN (IF sticky THEN -1 ELSE 0)
        ELSE IF sticky \/ odd THEN 1
        ELSE -1

RECURSIVE Cut(_, _, _)
\* The first four digits of k * 10^e for k > 0, the exponent of the first
\* digit, and whether a digit other than 0 follows the fourth.
Cut(k, e, rest) ==
    IF k < 1000 THEN Cut(k * 10, e - 1, rest)
    ELSE IF k > 9999 THEN Cut(k \div 10, e + 1, rest \/ k % 10 # 0)
    ELSE [m |-> k, e |-> e + 3, rest |-> rest]

RECURSIVE Pad10(_)
\* k followed by zeros, ten digits in all.
Pad10(k) == IF k < 1000000000 THEN Pad10(k * 10) ELSE k

\* float('inf'): what a literal too large for a float denotes.
Infinity == [m |-> -1, e |-> 0, rest |-> FALSE]

\* The literal k * 10^e is at least 2^1024 - 2^970 = 1.7976931348623158e308,
\* from where on the nearest float is inf.  k has at most ten digits.
Overflows(k, c) ==
    \/ c.e > 308
    \/ /\ c.e = 308
       /\ \/ c.m > 1797
          \/ c.m = 1797 /\ Pad10(k) % 1000000 > 693134

\* The float a literal denotes: k * 10^e for naturals k and e (1e6 is 1 and 6,
\* the int 25 is 25 and 0, converted when it becomes a Quantity).  It is the
\* nearest float, so its digits are those of the literal unless the literal
\* ends within four digits and no float is exactly that number.  The bits of
\* k * 10^e are those of k * 5^e followed by e zeros, so the two are rounded
\* alike.
IntToSci(k, e) ==
    IF k = 0 THEN [m |-> 0, e |-> 0, rest |-> FALSE]
    ELSE LET c == Cut(k, e, FALSE)
         IN  IF Overflows(k, c) THEN Infinity
             ELSE IF c.rest THEN c
             ELSE LET s == FloatError(BigTimesPow5(ToBig(k), e))
                  IN  IF s = 0 THEN c
                      ELSE IF s = 1 THEN [c EXCEPT !.rest = TRUE]
                      ELSE IF c.m = 1000
                           THEN [m |-> 9999, e |-> c.e - 1, rest |-> TRUE]
                      ELSE [m |-> c.m - 1, e |-> c.e, rest |-> TRUE]

\* 10 ** k for a small non-negative int k.
RECURSIVE Pow10(_)
Pow10(k) == IF k = 0 THEN 1 ELSE 10 * Pow10(k - 1)

\* number * unit: an astropy Quantity built from a literal.
Quantity(num, unit) ==
    [m |-> num.m, e |-> num.e, rest |-> num.rest, unit |-> unit,
     from |-> "literal", call |-> 0]

\* A quantity returned by the library call number c of function fn.
Returned(m, e, rest, unit, fn, c) ==
    [m |-> m, e |-> e, rest |-> rest, unit |-> unit, from |-> fn, call |-> c]

\* The magnitude and unit of a quantity, without its provenance.
Mag(q) == <<q.m, q.e, q.rest, q.unit>>

\* a < b for two quantities of the same unit with positive magnitude, as far
\* as their first four digits tell.
Less(a, b) ==
    \/ a.e < b.e
    \/ a.e = b.e /\ a.m < b.m
    \/ a.e = b.e /\ a.m = b.m /\ ~a.rest /\ b.rest

\* a * 10^k < b: a is more than k orders of magnitude below b.
OrdersBelow(a, b, k) == Less([a EXCEPT !.e = a.e + k], b)

\* The magnitude to two significant digits, as <<digits, exponent>>.
Round2(q) ==
    LET d == (q.m + 50) \div 100
    IN  IF d = 100 THEN <<10, q.e + 1>> ELSE <<d, q.e>>

\* format(q, ".2e"): three significant digits, exponent and unit.  The float
\* is rounded to the nearest three-digit decimal, and a float that lies
\* exactly half way goes to the even digit.  inf is written inf (digits -1).
Format2e(q) ==
    LET d0 == q.m \div 10
        r  == q.m % 10
        up == r > 5 \/ (r = 5 /\ (q.rest \/ d0 % 2 = 1))
        d  == IF up THEN d0 + 1 ELSE d0
    IN  IF q.m = -1 THEN [digits |-> -1, e |-> 0, unit |-> q.unit]
        ELSE IF d = 1000 THEN [digits |-> 100, e |-> q.e + 1, unit |-> q.unit]
        ELSE [digits |-> d, e |-> q.e, unit |-> q.unit]

\* q * u.dimensionless_unscaled: a bare float becomes a dimensionless Quantity
\* of the same magnitude.
TimesDimensionless(q) == [q EXCEPT !.unit = "dimensionless"]

\* q.to("Hz", equivalencies=u.dimensionless_angles()): radians count as
\* dimensionless, so rad / s becomes Hz with the magnitude unchanged.
ToHz(q) ==
    IF q.unit \in {"rad / s", "Hz"} THEN [q EXCEPT !.unit = "Hz"]
    ELSE [q EXCEPT !.unit = "UnitConversionError"]

\* The absent binding of a name.
Unbound == [from |-> "unbound"]

\* The result of a call whose inputs are not those of a recorded run.
Unrecorded(fn, c) == Returned(0, 0, FALSE, "unrecorded", fn, c)

Names ==
    {"T_corona", "v_e", "v_p", "solar_corona", "bmin", "bmax", "n",
     "Coulomb_log", "frequencies", "B", "solar_wind", "T_wind", "n_wind"}

\* What the formulary library can raise (invalid units, unsupported species
\* strings, non-physical parameter combinations).
LibraryErrors == {"UnitTypeError", "InvalidParticleError", "PhysicsError"}

\* The species pair every call names.
Species == <<"e-", "p+">>

\* ------------------------------------------------------------------------
\* The scenario records
\* ------------------------------------------------------------------------

solar_corona ==
    [T       |-> Quantity(IntToSci(1, 6), "K"),
     n_e     |-> Quantity(IntToSci(1, 9), "cm-3"),
     species |-> Species,
     from    |-> "literal"]

solar_wind ==
    [T       |-> Quantity(IntToSci(6, 5), "K"),
     n_e     |-> Quantity(IntToSci(25, 0), "cm-3"),
     species |-> Species,
     from    |-> "literal"]

\* A scenario record without the provenance of its fields.
Fields(d) == <<Mag(d.T), Mag(d.n_e), d.species>>

\* ------------------------------------------------------------------------
\* The formulary library, as far as the notebook's recorded outputs show it.
\* Each function returns what the recorded run printed for the inputs the
\* notebook passes; c is the index of the call in the call log.  A value the
\* notebook displays with more than four digits is kept by its first four; a
\* value it prints with :.2e alone is known by its three printed digits and
\* is kept as printed.
\* ------------------------------------------------------------------------

\* thermal_speed(T, particle=["e-","p+"], method="most_probable", ndim=3)
thermal_speed(T, particle, c) ==
    IF Mag(T) = Mag(solar_corona.T) /\ particle = Species
    THEN <<Returned(5505, 6, TRUE, "m / s", "thermal_speed", c),
           Returned(1284, 5, TRUE, "m / s", "thermal_speed", c)>>
    ELSE <<Unrecorded("thermal_speed", c), Unrecorded("thermal_speed", c)>>

\* impact_parameter(**scenario) -> (bmin, bmax), known to three digits
impact_parameter(d, c) ==
    CASE Fields(d) = Fields(solar_corona) ->
           <<Returned(1050, -11, FALSE, "m", "impact_parameter", c),
             Returned(2180, -3, FALSE, "m", "impact_parameter", c)>>
      [] Fields(d) = Fields(solar_wind) ->
           <<Returned(1390, -11, FALSE, "m", "impact_parameter", c),
             Returned(1070, 1, FALSE, "m", "impact_parameter", c)>>
      [] OTHER ->
           <<Unrecorded("impact_parameter", c), Unrecorded("impact_parameter", c)>>

\* Coulomb_logarithm(**scenario) -> a bare float
Coulomb_logarithm(d, c) ==
    CASE Fields(d) = Fields(solar_corona) ->
           Returned(1915, 1, TRUE, "", "Coulomb_logarithm", c)
      [] Fields(d) = Fields(solar_wind) ->
           Returned(2740, 1, FALSE, "", "Coulomb_logarithm", c)
      [] OTHER -> Unrecorded("Coulomb_logarithm", c)

\* coll.frequencies.MaxwellianCollisionFrequencies(a, b, v_drift=, T_a=, n_a=,
\* n_b=, T_b=, Coulomb_log=): the object holds its inputs.
MaxwellianCollisionFrequencies(a, b, v_drift, T_a, n_a, n_b, T_b, Coulomb_log, c) ==
    [species |-> <<a, b>>, v_drift |-> v_drift, T_a |-> T_a, n_a |-> n_a,
     n_b |-> n_b, T_b |-> T_b, Coulomb_log |-> Coulomb_log,
     from |-> "MaxwellianCollisionFrequencies", call |-> c]

\* The inputs of a MaxwellianCollisionFrequencies object, without provenance.
Inputs(f) ==
    <<f.species, Mag(f.v_drift), Mag(f.T_a), Mag(f.n_a), Mag(f.n_b), Mag(f.T_b),
      Mag(f.Coulomb_log)>>

\* The inputs that agree with scenario record d and Coulomb logarithm lnL.
InputsFor(d, lnL) ==
    <<d.species, <<0, 0, FALSE, "m / s">>, Mag(d.T), Mag(d.n_e), Mag(d.n_e), Mag(d.T),
      Mag(TimesDimensionless(lnL))>>

\* frequencies.Lorentz_collision_frequency
Lorentz_collision_frequency(f, c) ==
    CASE Inputs(f) = InputsFor(solar_corona, Coulomb_logarithm(solar_corona, 0)) ->
           Returned(9241, 1, TRUE, "Hz", "Lorentz_collision_frequency", c)
      [] Inputs(f) = InputsFor(solar_wind, Coulomb_logarithm(solar_wind, 0)) ->
           Returned(7103, -6, TRUE, "Hz", "Lorentz_collision_frequency", c)
      [] OTHER -> Unrecorded("Lorentz_collision_frequency", c)

\* plasma_frequency(n, ['e-','p+']) -> angular frequencies of e- and p+
plasma_frequency(dens, particle, c) ==
    IF Mag(dens) = Mag(solar_corona.n_e) /\ particle = Species
    THEN <<Returned(1783, 9, TRUE, "rad / s", "plasma_frequency", c),
           Returned(4163, 7, TRUE, "rad / s", "plasma_frequency", c)>>
    ELSE <<Unrecorded("plasma_frequency", c), Unrecorded("plasma_frequency", c)>>

\* gyrofrequency(B, ['e-','p+']) -> angular frequencies of e- and p+
gyrofrequency(field, particle, c) ==
    IF Mag(field) = <<5000, 1, FALSE, "G">> /\ particle = Species
    THEN <<Returned(8794, 8, TRUE, "rad / s", "gyrofrequency", c),
           Returned(4789, 5, TRUE, "rad / s", "gyrofrequency", c)>>
    ELSE <<Unrecorded("gyrofrequency", c), Unrecorded("gyrofrequency", c)>>

\* ------------------------------------------------------------------------
\* The kernel: namespace, output area, call log
\* ------------------------------------------------------------------------

\* The line of the empty last cell: the run is over when pc reaches it.
Done == 336

\* The first statement of each code cell; executing it takes a new prompt number.
CellStarts == {34, 77, 144, 188, 228, 253, 298}

\* A literal argument.
Lit(x) == [val |-> x, from |-> "literal", call |-> 0]

Arg(name, v) == [name |-> name, v |-> v]

\* **d: the fields of a scenario record as keyword arguments.
Unpack(d) == <<Arg("T", d.T), Arg("n_e", d.n_e), Arg("species", Lit(d.species))>>

Call(line, fn, args) == [line |-> line, fn |-> fn, args |-> args]

\* print(...) writes to stdout; the last expression of a cell is displayed as
\* the cell's execute_result under the cell's prompt number.
Printed(line, label, shown, vals) ==
    [line |-> line, stream |-> "stdout", count |-> 0, label |-> label,
     shown |-> shown, vals |-> vals]

Displayed(line, label, vals) ==
    [line |-> line, stream |-> "execute_result", count |-> exec_count,
     label |-> label, shown |-> [i \in DOMAIN vals |-> Mag(vals[i])], vals |-> vals]

Init ==
    /\ pc = 34
    /\ ns = [x \in Names |-> Unbound]
    /\ binders = [x \in Names |-> {}]
    /\ out = <<>>
    /\ calls = <<>>
    /\ raised = "none"
    /\ err = "none"
    /\ exec_count \in 0 .. MaxPriorExecutions

\* The statement at line l is the next to run.
Running(l) == pc = l /\ err = "none"

\* Every name the statement reads is bound.
Bound(S) == \A x \in S : ns[x] # Unbound

\* The statement completes: it binds `bindings`, writes `outs`, has made
\* `made` library calls, and control passes to the statement at line next.
Advance(next, bindings, outs, made) ==
    /\ pc' = next
    /\ ns' = [x \in Names |-> IF x \in DOMAIN bindings THEN bindings[x] ELSE ns[x]]
    /\ binders' = [x \in Names |->
                     IF x \in DOMAIN bindings THEN binders[x] \cup {pc} ELSE binders[x]]
    /\ out' = out \o outs
    /\ calls' = calls \o made
    /\ exec_count' = IF pc \in CellStarts THEN exec_count + 1 ELSE exec_count
    /\ UNCHANGED <<raised, err>>

\* Mutant: the statement catches the first error and tries the call again.
Raise_RetriedOnce(k, call) ==
    /\ raised = "none"
    /\ calls' = Append(calls, call)
    /\ raised' = k
    /\ UNCHANGED <<pc, ns, binders, out, err, exec_count>>

\* A library call raises k.  No statement of the notebook is inside a try
\* block: the exception ends the run at the statement, which binds and
\* prints nothing.
Raise(k, call) ==
    /\ calls' = Append(calls, call)
    /\ raised' = k
    /\ err' = k
    /\ UNCHANGED <<pc, ns, binders, out, exec_count>>

\* Reading an unbound name raises NameError, which ends the run as well.
NameError ==
    /\ err' = "NameError"
    /\ UNCHANGED <<pc, ns, binders, out, calls, raised, exec_count>>

\* A statement that makes one library call: the call returns and the statement
\* completes, or the call raises one of the library's errors.
LibraryCall(call, next, bindings, outs) ==
    \/ Advance(next, bindings, outs, <<call>>)
    \/ \E k \in LibraryErrors : Raise(k, call)

\* ------------------------------------------------------------------------
\* Cell f26eb21f: imports
\* ------------------------------------------------------------------------

Imports ==
    /\ Running(34)
    /\ Advance(77, <<>>, <<>>, <<>>)

\* ------------------------------------------------------------------------
\* Cell 44128424: thermal speeds in the corona
\* ------------------------------------------------------------------------

\* T_corona = 1e6 * u.K
AssignTCorona ==
    /\ Running(77)
    /\ Advance(78, [T_corona |-> Quantity(IntToSci(1, 6), "K")], <<>>, <<>>)

\* v_e,v_p = thermal_speed(T=T_corona, particle=["e-","p+"], ...)
CallThermalSpeed ==
    /\ Running(78)
    /\ IF ~Bound({"T_corona"}) THEN NameError
       ELSE LET r == thermal_speed(ns["T_corona"], Species, Len(calls) + 1)
            IN  LibraryCall(
                  Call(78, "thermal_speed",
                       <<Arg("T", ns["T_corona"]), Arg("particle", Lit(Species)),
                         Arg("method", Lit("most_probable")), Arg("ndim", Lit(3))>>),
                  79, [v_e |-> r[1], v_p |-> r[2]], <<>>)

\* print(v_e,v_p)
PrintThermalSpeeds ==
    /\ Running(79)
    /\ IF ~Bound({"v_e", "v_p"}) THEN NameError
       ELSE Advance(144, <<>>,
                    <<Printed(79, "v_e v_p", <<Mag(ns["v_e"]), Mag(ns["v_p"])>>,
                              <<ns["v_e"], ns["v_p"]>>)>>,
                    <<>>)

\* ------------------------------------------------------------------------
\* Cell aa225676: impact parameters and Coulomb logarithm in the corona
\* ------------------------------------------------------------------------

\* solar_corona = {"T": 1e6 * u.K, "n_e": 1e9 * u.cm**-3, "species": ["e-", "p+"]}
AssignSolarCorona ==
    /\ Running(144)
    /\ Advance(150, [solar_corona |-> solar_corona], <<>>, <<>>)

\* bmin, bmax = impact_parameter(**solar_corona)
CallImpactParameterCorona ==
    /\ Running(150)
    /\ IF ~Bound({"solar_corona"}) THEN NameError
       ELSE LET r == impact_parameter(ns["solar_corona"], Len(calls) + 1)
            IN  LibraryCall(
                  Call(150, "impact_parameter", Unpack(ns["solar_corona"])),
                  152, [bmin |-> r[1], bmax |-> r[2]], <<>>)

\* print(f"{bmin = :.2e}")
PrintBminCorona ==
    /\ Running(152)
    /\ IF ~Bound({"bmin"}) THEN NameError
       ELSE Advance(153, <<>>,
                    <<Printed(152, "bmin", <<Format2e(ns["bmin"])>>, <<ns["bmin"]>>)>>,
                    <<>>)

\* print(f"{bmax = :.2e}")
PrintBmaxCorona ==
    /\ Running(153)
    /\ IF ~Bound({"bmax"}) THEN NameError
       ELSE Advance(156, <<>>,
                    <<Printed(153, "bmax", <<Format2e(ns["bmax"])>>, <<ns["bmax"]>>)>>,
                    <<>>)

\* Coulomb_logarithm(**solar_corona), the cell's last expression
DisplayCoulombLogarithmCorona ==
    /\ Running(156)
    /\ IF ~Bound({"solar_corona"}) THEN NameError
       ELSE LET r == Coulomb_logarithm(ns["solar_corona"], Len(calls) + 1)
            IN  LibraryCall(
                  Call(156, "Coulomb_logarithm", Unpack(ns["solar_corona"])),
                  188, <<>>, <<Displayed(156, "Coulomb_logarithm", <<r>>)>>)

\* ------------------------------------------------------------------------
\* Cell b9aaf0ef: collision frequency in the corona
\* ------------------------------------------------------------------------

\* Mutant: the density is given per cubic metre.
AssignN_PerCubicMetre ==
    /\ Running(188)
    /\ Advance(189, [n |-> Quantity(IntToSci(1, 9), "m-3")], <<>>, <<>>)

\* n = 1e9 * u.cm**-3
AssignN ==
    /\ Running(188)
    /\ Advance(189, [n |-> Quantity(IntToSci(1, 9), "cm-3")], <<>>, <<>>)

\* Coulomb_log = Coulomb_logarithm(**solar_corona) * u.dimensionless_unscaled
AssignCoulombLogCorona ==
    /\ Running(189)
    /\ IF ~Bound({"solar_corona"}) THEN NameError
       ELSE LET r == Coulomb_logarithm(ns["solar_corona"], Len(calls) + 1)
            IN  LibraryCall(
                  Call(189, "Coulomb_logarithm", Unpack(ns["solar_corona"])),
                  193, [Coulomb_log |-> TimesDimensionless(r)], <<>>)

\* Mutant: the electron thermal speed is passed as the drift velocity.
CallMCFCorona_DriftFromThermal ==
    /\ Running(193)
    /\ IF ~Bound({"T_corona", "n", "Coulomb_log"}) THEN NameError
       ELSE LET v0 == Quantity(IntToSci(0, 0), "m / s")
            IN  LibraryCall(
                  Call(193, "MaxwellianCollisionFrequencies",
                       <<Arg("test_particle", Lit("e-")), Arg("field_particle", Lit("p+")),
                         Arg("v_drift", ns["v_e"]), Arg("T_a", ns["T_corona"]),
                         Arg("n_a", ns["n"]), Arg("n_b", ns["n"]),
                         Arg("T_b", ns["T_corona"]),
                         Arg("Coulomb_log", ns["Coulomb_log"])>>),
                  196,
                  [frequencies |->
                     MaxwellianCollisionFrequencies(
                       "e-", "p+", ns["v_e"], ns["T_corona"], ns["n"], ns["n"],
                       ns["T_corona"], ns["Coulomb_log"], Len(calls) + 1)],
                  <<>>)

\* frequencies = coll.frequencies.MaxwellianCollisionFrequencies("e-", "p+",
\*     v_drift=0 * u.m / u.s, T_a=T_corona,n_a=n,n_b=n, T_b=T_corona,
\*     Coulomb_log=Coulomb_log)
CallMCFCorona ==
    /\ Running(193)
    /\ IF ~Bound({"T_corona", "n", "Coulomb_log"}) THEN NameError
       ELSE LET v0 == Quantity(IntToSci(0, 0), "m / s")
            IN  LibraryCall(
                  Call(193, "MaxwellianCollisionFrequencies",
                       <<Arg("test_particle", Lit("e-")), Arg("field_particle", Lit("p+")),
                         Arg("v_drift", v0), Arg("T_a", ns["T_corona"]),
                         Arg("n_a", ns["n"]), Arg("n_b", ns["n"]),
                         Arg("T_b", ns["T_corona"]),
                         Arg("Coulomb_log", ns["Coulomb_log"])>>),
                  196,
                  [frequencies |->
                     MaxwellianCollisionFrequencies(
                       "e-", "p+", v0, ns["T_corona"], ns["n"], ns["n"],
                       ns["T_corona"], ns["Coulomb_log"], Len(calls) + 1)],
                  <<>>)

\* frequencies.Lorentz_collision_frequency, the cell's last expression
DisplayLorentzCorona ==
    /\ Running(196)
    /\ IF ~Bound({"frequencies"}) THEN NameError
       ELSE LET r == Lorentz_collision_frequency(ns["frequencies"], Len(calls) + 1)
            IN  LibraryCall(
                  Call(196, "Lorentz_collision_frequency",
                       <<Arg("self", ns["frequencies"])>>),
                  228, <<>>, <<Displayed(196, "Lorentz_collision_frequency", <<r>>)>>)

\* ------------------------------------------------------------------------
\* Cells d19d8236 and ee0b9881: plasma frequency and gyrofrequency
\* ------------------------------------------------------------------------

\* from plasmapy.formulary import plasma_frequency
ImportPlasmaFrequency ==
    /\ Running(228)
    /\ Advance(229, <<>>, <<>>, <<>>)

\* Mutant: the plasma frequency is computed but is not the displayed expression.
DisplayPlasmaFrequency_NotShown ==
    /\ Running(229)
    /\ IF ~Bound({"n"}) THEN NameError
       ELSE LET r == plasma_frequency(ns["n"], Species, Len(calls) + 1)
            IN  LibraryCall(
                  Call(229, "plasma_frequency",
                       <<Arg("n", ns["n"]), Arg("particle", Lit(Species))>>),
                  253, <<>>,
                  <<>>)

\* plasma_frequency(n, ['e-','p+']).to("Hz", equivalencies=u.dimensionless_angles())
DisplayPlasmaFrequency ==
    /\ Running(229)
    /\ IF ~Bound({"n"}) THEN NameError
       ELSE LET r == plasma_frequency(ns["n"], Species, Len(calls) + 1)
            IN  LibraryCall(
                  Call(229, "plasma_frequency",
                       <<Arg("n", ns["n"]), Arg("particle", Lit(Species))>>),
                  253, <<>>,
                  <<Displayed(229, "plasma_frequency", <<ToHz(r[1]), ToHz(r[2])>>)>>)

\* from plasmapy.formulary import gyrofrequency
ImportGyrofrequency ==
    /\ Running(253)
    /\ Advance(254, <<>>, <<>>, <<>>)

\* B = 50 * u.G #magnetic field strength in corona, for gyrofrequency calc
AssignB ==
    /\ Running(254)
    /\ Advance(255, [B |-> Quantity(IntToSci(50, 0), "G")], <<>>, <<>>)

\* gyrofrequency(B, ['e-','p+']).to("Hz", equivalencies=u.dimensionless_angles())
DisplayGyrofrequency ==
    /\ Running(255)
    /\ IF ~Bound({"B"}) THEN NameError
       ELSE LET r == gyrofrequency(ns["B"], Species, Len(calls) + 1)
            IN  LibraryCall(
                  Call(255, "gyrofrequency",
                       <<Arg("B", ns["B"]), Arg("particle", Lit(Species))>>),
                  298, <<>>,
                  <<Displayed(255, "gyrofrequency", <<ToHz(r[1]), ToHz(r[2])>>)>>)

\* ------------------------------------------------------------------------
\* Cell 16c340cf: the solar wind
\* ------------------------------------------------------------------------

\* Mutant: the solar-wind record is assigned to the name solar_corona.
AssignSolarWind_ReusesName ==
    /\ Running(298)
    /\ Advance(304, [solar_corona |-> solar_wind], <<>>, <<>>)

\* solar_wind = {"T": 6e5 * u.K, "n_e": 25 * u.cm**-3, "species": ["e-", "p+"]}
AssignSolarWind ==
    /\ Running(298)
    /\ Advance(304, [solar_wind |-> solar_wind], <<>>, <<>>)

\* Mutant: the solar-wind cell passes the corona record again.
CallImpactParameterWind_CoronaRecord ==
    /\ Running(304)
    /\ IF ~Bound({"solar_corona"}) THEN NameError
       ELSE LET r == impact_parameter(ns["solar_corona"], Len(calls) + 1)
            IN  LibraryCall(
                  Call(304, "impact_parameter", Unpack(ns["solar_corona"])),
                  306, [bmin |-> r[1], bmax |-> r[2]], <<>>)

\* Mutant: the returned pair is unpacked in the wrong order.
CallImpactParameterWind_Swapped ==
    /\ Running(304)
    /\ IF ~Bound({"solar_wind"}) THEN NameError
       ELSE LET r == impact_parameter(ns["solar_wind"], Len(calls) + 1)
            IN  LibraryCall(
                  Call(304, "impact_parameter", Unpack(ns["solar_wind"])),
                  306, [bmin |-> r[2], bmax |-> r[1]], <<>>)

\* bmin, bmax = impact_parameter(**solar_wind)
CallImpactParameterWind ==
    /\ Running(304)
    /\ IF ~Bound({"solar_wind"}) THEN NameError
       ELSE LET r == impact_parameter(ns["solar_wind"], Len(calls) + 1)
            IN  LibraryCall(
                  Call(304, "impact_parameter", Unpack(ns["solar_wind"])),
                  306, [bmin |-> r[1], bmax |-> r[2]], <<>>)

\* print(f"{bmin = :.2e}")
PrintBminWind ==
    /\ Running(306)
    /\ IF ~Bound({"bmin"}) THEN NameError
       ELSE Advance(307, <<>>,
                    <<Printed(306, "bmin", <<Format2e(ns["bmin"])>>, <<ns["bmin"]>>)>>,
                    <<>>)

\* print(f"{bmax = :.2e}")
PrintBmaxWind ==
    /\ Running(307)
    /\ IF ~Bound({"bmax"}) THEN NameError
       ELSE Advance(309, <<>>,
                    <<Printed(307, "bmax", <<Format2e(ns["bmax"])>>, <<ns["bmax"]>>)>>,
                    <<>>)

\* Coulomb_log = Coulomb_logarithm(**solar_wind)* u.dimensionless_unscaled
AssignCoulombLogWind ==
    /\ Running(309)
    /\ IF ~Bound({"solar_wind"}) THEN NameError
       ELSE LET r == Coulomb_logarithm(ns["solar_wind"], Len(calls) + 1)
            IN  LibraryCall(
                  Call(309, "Coulomb_logarithm", Unpack(ns["solar_wind"])),
                  310, [Coulomb_log |-> TimesDimensionless(r)], <<>>)

\* print(f"{Coulomb_log = :.2e}")
PrintCoulombLogWind ==
    /\ Running(310)
    /\ IF ~Bound({"Coulomb_log"}) THEN NameError
       ELSE Advance(312, <<>>,
                    <<Printed(310, "Coulomb_log", <<Format2e(ns["Coulomb_log"])>>,
                              <<ns["Coulomb_log"]>>)>>,
                    <<>>)

\* T_wind = 6*10**5*u.K
AssignTWind ==
    /\ Running(312)
    /\ Advance(313, [T_wind |-> Quantity(IntToSci(6 * Pow10(5), 0), "K")], <<>>, <<>>)

\* Mutant: the solar-wind density is assigned to the name n.
AssignNWind_ReusesN ==
    /\ Running(313)
    /\ Advance(315, [n |-> Quantity(IntToSci(25, 0), "cm-3")], <<>>, <<>>)

\* n_wind = 25 * u.cm**-3
AssignNWind ==
    /\ Running(313)
    /\ Advance(315, [n_wind |-> Quantity(IntToSci(25, 0), "cm-3")], <<>>, <<>>)

\* Mutant: the solar-wind call passes the density n of the corona cells.
CallMCFWind_CoronaDensity ==
    /\ Running(315)
    /\ IF ~Bound({"T_wind", "n", "Coulomb_log"}) THEN NameError
       ELSE LET v0 == Quantity(IntToSci(0, 0), "m / s")
            IN  LibraryCall(
                  Call(315, "MaxwellianCollisionFrequencies",
                       <<Arg("test_particle", Lit("e-")), Arg("field_particle", Lit("p+")),
                         Arg("v_drift", v0), Arg("T_a", ns["T_wind"]),
                         Arg("n_a", ns["n"]), Arg("n_b", ns["n"]),
                         Arg("T_b", ns["T_wind"]),
                         Arg("Coulomb_log", ns["Coulomb_log"])>>),
                  319,
                  [frequencies |->
                     MaxwellianCollisionFrequencies(
                       "e-", "p+", v0, ns["T_wind"], ns["n"], ns["n"],
                       ns["T_wind"], ns["Coulomb_log"], Len(calls) + 1)],
                  <<>>)

\* Mutant: the solar-wind call passes the temperature T_corona.
CallMCFWind_StaleTemperature ==
    /\ Running(315)
    /\ IF ~Bound({"T_corona", "n_wind", "Coulomb_log"}) THEN NameError
       ELSE LET v0 == Quantity(IntToSci(0, 0), "m / s")
            IN  LibraryCall(
                  Call(315, "MaxwellianCollisionFrequencies",
                       <<Arg("test_particle", Lit("e-")), Arg("field_particle", Lit("p+")),
                         Arg("v_drift", v0), Arg("T_a", ns["T_corona"]),
                         Arg("n_a", ns["n_wind"]), Arg("n_b", ns["n_wind"]),
                         Arg("T_b", ns["T_corona"]),
                         Arg("Coulomb_log", ns["Coulomb_log"])>>),
                  319,
                  [frequencies |->
                     MaxwellianCollisionFrequencies(
                       "e-", "p+", v0, ns["T_corona"], ns["n_wind"], ns["n_wind"],
                       ns["T_corona"], ns["Coulomb_log"], Len(calls) + 1)],
                  <<>>)

\* frequencies = coll.frequencies.MaxwellianCollisionFrequencies("e-", "p+",
\*     v_drift=0 * u.m / u.s, T_a=T_wind,n_a=n_wind,n_b=n_wind, T_b=T_wind,
\*     Coulomb_log=Coulomb_log)
CallMCFWind ==
    /\ Running(315)
    /\ IF ~Bound({"T_wind", "n_wind", "Coulomb_log"}) THEN NameError
       ELSE LET v0 == Quantity(IntToSci(0, 0), "m / s")
            IN  LibraryCall(
                  Call(315, "MaxwellianCollisionFrequencies",
                       <<Arg("test_particle", Lit("e-")), Arg("field_particle", Lit("p+")),
                         Arg("v_drift", v0), Arg("T_a", ns["T_wind"]),
                         Arg("n_a", ns["n_wind"]), Arg("n_b", ns["n_wind"]),
                         Arg("T_b", ns["T_wind"]),
                         Arg("Coulomb_log", ns["Coulomb_log"])>>),
                  319,
                  [frequencies |->
                     MaxwellianCollisionFrequencies(
                       "e-", "p+", v0, ns["T_wind"], ns["n_wind"], ns["n_wind"],
                       ns["T_wind"], ns["Coulomb_log"], Len(calls) + 1)],
                  <<>>)

\* frequencies.Lorentz_collision_frequency, the cell's last expression
DisplayLorentzWind ==
    /\ Running(319)
    /\ IF ~Bound({"frequencies"}) THEN NameError
       ELSE LET r == Lorentz_collision_frequency(ns["frequencies"], Len(calls) + 1)
            IN  LibraryCall(
                  Call(319, "Lorentz_collision_frequency",
                       <<Arg("self", ns["frequencies"])>>),
                  Done, <<>>, <<Displayed(319, "Lorentz_collision_frequency", <<r>>)>>)

Next ==
    \/ Imports
    \/ AssignTCorona
    \/ CallThermalSpeed
    \/ PrintThermalSpeeds
    \/ AssignSolarCorona
    \/ CallImpactParameterCorona
    \/ PrintBminCorona
    \/ PrintBmaxCorona
    \/ DisplayCoulombLogarithmCorona
    \/ AssignN
    \/ AssignCoulombLogCorona
    \/ CallMCFCorona
    \/ DisplayLorentzCorona
    \/ ImportPlasmaFrequency
    \/ DisplayPlasmaFrequency
    \/ ImportGyrofrequency
    \/ AssignB
    \/ DisplayGyrofrequency
    \/ AssignSolarWind
    \/ CallImpactParameterWind
    \/ PrintBminWind
    \/ PrintBmaxWind
    \/ AssignCoulombLogWind
    \/ PrintCoulombLogWind
    \/ AssignTWind
    \/ AssignNWind
    \/ CallMCFWind
    \/ DisplayLorentzWind

Spec == Init /\ [][Next]_vars

\* ------------------------------------------------------------------------
\* What the claims speak of
\* ------------------------------------------------------------------------

Scenarios == {"corona", "solar_wind"}

\* The six derived quantities, each named by the library function behind it.
Quantities ==
    {"thermal_speed", "impact_parameter", "Coulomb_logarithm",
     "Lorentz_collision_frequency", "plasma_frequency", "gyrofrequency"}

\* The scenario a physical input belongs to: the corona's temperature,
\* density and magnetic field, or the solar wind's temperature and density.
ScenarioOfQuantity(q) ==
    CASE Mag(q) \in {Mag(solar_corona.T), Mag(solar_corona.n_e), <<5000, 1, FALSE, "G">>} ->
           "corona"
      [] Mag(q) \in {Mag(solar_wind.T), Mag(solar_wind.n_e)} -> "solar_wind"
      [] OTHER -> "none"

PhysicalArgs == {"T", "T_a", "n", "B", "self"}

\* The scenario of a call: that of its first physical argument.
CallScenario(c) ==
    LET i == CHOOSE k \in DOMAIN c.args :
                 /\ c.args[k].name \in PhysicalArgs
                 /\ \A j \in 1 .. k - 1 : c.args[j].name \notin PhysicalArgs
        a == c.args[i]
    IN  IF a.name = "self" THEN ScenarioOfQuantity(a.v.T_a) ELSE ScenarioOfQuantity(a.v)

\* The argument of call c named name.
ArgOf(c, name) == c.args[CHOOSE k \in DOMAIN c.args : c.args[k].name = name].v

\* The values the output area shows, each a result of a library call.
ShownValues == UNION {{out[i].vals[j] : j \in DOMAIN out[i].vals} : i \in DOMAIN out}

\* The scenario of a shown value: that of the call which returned it.
ValueScenario(v) == CallScenario(calls[v.call])

\* The (scenario, quantity) pairs computed by a library call and shown.
Emitted ==
    {<<ValueScenario(v), v.from>> : v \in {w \in ShownValues : w.unit # "unrecorded"}}

\* The values shown for quantity q of scenario s.
ShownFor(s, q) == {v \in ShownValues : v.from = q /\ ValueScenario(v) = s}

\* The output entries labelled label that show a value of scenario s.
Entries(s, label) ==
    {out[i] : i \in {k \in DOMAIN out :
                       out[k].label = label /\ ValueScenario(out[k].vals[1]) = s}}

\* The position of a library function in the documented sequence.
Rank(fn) ==
    CASE fn = "thermal_speed" -> 1
      [] fn = "impact_parameter" -> 2
      [] fn = "Coulomb_logarithm" -> 3
      [] fn \in {"MaxwellianCollisionFrequencies", "Lorentz_collision_frequency"} -> 4
      [] fn = "plasma_frequency" -> 5
      [] fn = "gyrofrequency" -> 6

\* The index of the first call of rank r.
FirstOfRank(r) ==
    CHOOSE i \in DOMAIN calls :
        /\ Rank(calls[i].fn) = r
        /\ \A j \in 1 .. i - 1 : Rank(calls[j].fn) # r

RanksCalled == {Rank(calls[i].fn) : i \in DOMAIN calls}

\* ------------------------------------------------------------------------
\* C1
\* ------------------------------------------------------------------------

\* C1 as stated: when the run is done, every one of the six quantities has
\* been computed and shown for the corona and for the solar wind alike.
C1_AllSixForBothScenarios ==
    pc = Done => \A s \in Scenarios, q \in Quantities : <<s, q>> \in Emitted

\* C1 amended: when the run is done, all six quantities have been computed and
\* shown for the corona, and for the solar wind exactly the impact-parameter
\* bounds, the Coulomb logarithm and the Lorentz collision frequency.
C1_EmittedWhenDone ==
    pc = Done =>
        Emitted = ({"corona"} \X Quantities)
                    \cup ({"solar_wind"} \X {"impact_parameter", "Coulomb_logarithm",
                                              "Lorentz_collision_frequency"})

C1_Witness ==
    /\ pc = Done
    /\ <<"corona", "gyrofrequency">> \in Emitted
    /\ <<"solar_wind", "Lorentz_collision_frequency">> \in Emitted

\* ------------------------------------------------------------------------
\* C2
\* ------------------------------------------------------------------------

\* C2: library calls happen top to bottom, each statement at most once; the
\* functions are first called in the order thermal speed, impact parameter,
\* Coulomb logarithm, collision frequency, plasma frequency, gyrofrequency;
\* within a scenario no call comes before a call of an earlier function; and
\* every corona call precedes every solar-wind call.
C2_FixedCallOrder ==
    /\ \A i \in DOMAIN calls : CallScenario(calls[i]) \in Scenarios
    /\ \A i, j \in DOMAIN calls :
         i < j =>
           /\ calls[i].line < calls[j].line
           /\ CallScenario(calls[i]) = CallScenario(calls[j])
                => Rank(calls[i].fn) <= Rank(calls[j].fn)
           /\ CallScenario(calls[j]) = "corona" => CallScenario(calls[i]) = "corona"
    /\ \A r1, r2 \in RanksCalled : r1 < r2 => FirstOfRank(r1) < FirstOfRank(r2)

C2_Witness ==
    /\ pc = Done
    /\ RanksCalled = 1 .. 6
    /\ \E i \in DOMAIN calls : CallScenario(calls[i]) = "solar_wind"

\* ------------------------------------------------------------------------
\* C3
\* ------------------------------------------------------------------------

\* C3: solar_corona and solar_wind are bound to their literals by their
\* defining assignments (lines 144 and 298) and every other step leaves both
\* unchanged.
C3_ScenarioRecordsImmutable ==
    /\ [](/\ ns["solar_corona"] \in {Unbound, solar_corona}
          /\ ns["solar_wind"] \in {Unbound, solar_wind}
          /\ pc > 144 => ns["solar_corona"] = solar_corona
          /\ pc > 298 => ns["solar_wind"] = solar_wind)
    /\ [][/\ pc # 144 => ns'["solar_corona"] = ns["solar_corona"]
          /\ pc # 298 => ns'["solar_wind"] = ns["solar_wind"]]_vars

C3_Witness ==
    /\ pc = Done
    /\ ns["solar_corona"] = solar_corona
    /\ ns["solar_wind"] = solar_wind
    /\ Len(calls) > 0

\* ------------------------------------------------------------------------
\* C4
\* ------------------------------------------------------------------------

\* C4: when a library call raises, the run ends with that very error at the
\* statement of the call: the call is the last one made, nothing of that or a
\* later statement is bound or shown, and no further step is taken.  The run
\* ends with no error other than one the library raised.
C4_ErrorsPropagate ==
    /\ [](/\ err = raised
          /\ raised # "none" =>
               /\ raised \in LibraryErrors
               /\ Len(calls) > 0
               /\ calls[Len(calls)].line = pc
               /\ \A i \in DOMAIN out : out[i].line < pc
               /\ \A x \in Names : \A l \in binders[x] : l < pc)
    /\ [][/\ err = "none"
          /\ raised' # "none" => UNCHANGED <<pc, ns, binders, out, exec_count>>]_vars

C4_Witness ==
    /\ err \in LibraryErrors
    /\ pc = 193
    /\ calls[Len(calls)].fn = "MaxwellianCollisionFrequencies"
    /\ Len(out) > 0

\* ------------------------------------------------------------------------
\* C5
\* ------------------------------------------------------------------------

\* C5: the Lorentz collision frequency shown for the corona (about 92 Hz) is
\* more than three orders of magnitude below the plasma frequencies (about
\* 1.8e9 Hz and 4.2e7 Hz) and the gyrofrequencies (about 8.8e8 Hz and
\* 4.8e5 Hz) shown for the electron and the proton.
C5_CoronaCollisionsRare ==
    \A nu \in ShownFor("corona", "Lorentz_collision_frequency") :
        /\ nu.unit = "Hz"
        /\ Round2(nu) = <<92, 1>>
        /\ \A e \in Entries("corona", "plasma_frequency") :
             /\ Round2(e.vals[1]) = <<18, 9>>
             /\ Round2(e.vals[2]) = <<42, 7>>
             /\ \A k \in 1 .. 2 : e.vals[k].unit = "Hz" /\ OrdersBelow(nu, e.vals[k], 3)
        /\ \A e \in Entries("corona", "gyrofrequency") :
             /\ Round2(e.vals[1]) = <<88, 8>>
             /\ Round2(e.vals[2]) = <<48, 5>>
             /\ \A k \in 1 .. 2 : e.vals[k].unit = "Hz" /\ OrdersBelow(nu, e.vals[k], 3)

C5_Witness ==
    /\ ShownFor("corona", "Lorentz_collision_frequency") # {}
    /\ Entries("corona", "plasma_frequency") # {}
    /\ Entries("corona", "gyrofrequency") # {}

\* ------------------------------------------------------------------------
\* C6
\* ------------------------------------------------------------------------

\* C6: the Lorentz collision frequency shown for the solar wind (about
\* 7e-6 Hz) is more than six orders of magnitude below the one shown for the
\* corona (about 92 Hz).
C6_WindFarBelowCorona ==
    \A w \in {v \in ShownValues : v.from = "Lorentz_collision_frequency"
                                    /\ ValueScenario(v) # "corona"} :
        /\ ValueScenario(w) = "solar_wind"
        /\ w.unit = "Hz"
        /\ Round2(w) = <<71, -6>>
        /\ \A c \in ShownFor("corona", "Lorentz_collision_frequency") :
             Round2(c) = <<92, 1>> /\ OrdersBelow(w, c, 6)
        /\ ShownFor("corona", "Lorentz_collision_frequency") # {}

C6_Witness ==
    /\ ShownFor("solar_wind", "Lorentz_collision_frequency") # {}
    /\ ShownFor("corona", "Lorentz_collision_frequency") # {}

\* ------------------------------------------------------------------------
\* C7
\* ------------------------------------------------------------------------

\* C7: for the corona and for the solar wind alike, the bmin the notebook
\* prints is strictly smaller than the bmax it prints.
C7_BminBelowBmax ==
    \A s \in Scenarios :
        \A lo \in Entries(s, "bmin"), hi \in Entries(s, "bmax") :
            /\ lo.vals[1].unit = "m" /\ hi.vals[1].unit = "m"
            /\ lo.vals[1].call = hi.vals[1].call
            /\ Less(lo.vals[1], hi.vals[1])

C7_Witness ==
    \A s \in Scenarios : Entries(s, "bmin") # {} /\ Entries(s, "bmax") # {}

\* ------------------------------------------------------------------------
\* C8
\* ------------------------------------------------------------------------

\* C8 as stated: no argument of a library call is a value that an earlier
\* library call returned.
C8_OnlyLiteralsPassed ==
    \A i \in DOMAIN calls : \A k \in DOMAIN calls[i].args :
        calls[i].args[k].v.from = "literal"

\* C8 amended: the only values returned by a library call and passed on to a
\* later one are the Coulomb logarithm, stored in Coulomb_log and passed to
\* MaxwellianCollisionFrequencies, and the object that call returns, stored
\* in frequencies and read for its Lorentz collision frequency; every other
\* argument is a literal or a field of a scenario record.
C8_OnlyCoulombLogPassedOn ==
    \A i \in DOMAIN calls : \A k \in DOMAIN calls[i].args :
        LET a == calls[i].args[k]
        IN  a.v.from # "literal" =>
              /\ a.v.call \in 1 .. i - 1
              /\ calls[a.v.call].fn = a.v.from
              /\ \/ /\ calls[i].fn = "MaxwellianCollisionFrequencies"
                    /\ a.name = "Coulomb_log"
                    /\ a.v.from = "Coulomb_logarithm"
                 \/ /\ calls[i].fn = "Lorentz_collision_frequency"
                    /\ a.name = "self"
                    /\ a.v.from = "MaxwellianCollisionFrequencies"

C8_Witness ==
    \E i \in DOMAIN calls :
        /\ calls[i].fn = "MaxwellianCollisionFrequencies"
        /\ ArgOf(calls[i], "Coulomb_log").from = "Coulomb_logarithm"

\* ------------------------------------------------------------------------
\* C9
\* ------------------------------------------------------------------------

\* C9 as stated: every name is bound by at most one statement.
C9_EveryNameBoundOnce ==
    \A x \in Names : Cardinality(binders[x]) <= 1

\* C9 amended: T_corona, v_e, v_p, solar_corona, n, B, solar_wind, T_wind and
\* n_wind are bound by one statement each; bmin, bmax, Coulomb_log and
\* frequencies are bound in the corona cells and bound again, once, in the
\* solar-wind cell; and each of these four holds the value of the scenario
\* whose statement bound it last.
C9_OnlyFourNamesRebound ==
    /\ \A x \in Names \ {"bmin", "bmax", "Coulomb_log", "frequencies"} :
         Cardinality(binders[x]) <= 1
    /\ binders["bmin"] \subseteq {150, 304}
    /\ binders["bmax"] \subseteq {150, 304}
    /\ binders["Coulomb_log"] \subseteq {189, 309}
    /\ binders["frequencies"] \subseteq {193, 315}
    /\ \A x \in {"bmin", "bmax", "Coulomb_log", "frequencies"} :
         ns[x] # Unbound =>
           /\ calls[ns[x].call].line \in binders[x]
           /\ \A l \in binders[x] : l <= calls[ns[x].call].line

C9_Witness ==
    /\ pc = Done
    /\ \A x \in {"bmin", "bmax", "Coulomb_log", "frequencies"} :
         Cardinality(binders[x]) = 2

\* ------------------------------------------------------------------------
\* C10
\* ------------------------------------------------------------------------

\* The arguments of a MaxwellianCollisionFrequencies call agree with scenario
\* record d: species, zero drift, both temperatures, both densities, and a
\* Coulomb logarithm that Coulomb_logarithm returned for d.
AgreesWith(c, d) ==
    /\ <<ArgOf(c, "test_particle").val, ArgOf(c, "field_particle").val>> = d.species
    /\ Mag(ArgOf(c, "v_drift")) = <<0, 0, FALSE, "m / s">>
    /\ Mag(ArgOf(c, "T_a")) = Mag(d.T)
    /\ Mag(ArgOf(c, "T_b")) = Mag(d.T)
    /\ Mag(ArgOf(c, "n_a")) = Mag(d.n_e)
    /\ Mag(ArgOf(c, "n_b")) = Mag(d.n_e)
    /\ LET lnL == ArgOf(c, "Coulomb_log")
       IN  /\ lnL.from = "Coulomb_logarithm"
           /\ lnL.call \in DOMAIN calls
           /\ calls[lnL.call].fn = "Coulomb_logarithm"
           /\ calls[lnL.call].args = Unpack(d)
           /\ Mag(lnL) = Mag(TimesDimensionless(Coulomb_logarithm(d, lnL.call)))

\* C10: every MaxwellianCollisionFrequencies call agrees with exactly one of
\* the two scenario records: the call of the corona cell with solar_corona and
\* the call of the solar-wind cell with solar_wind.
C10_CollisionInputsOfOneScenario ==
    \A i \in DOMAIN calls :
        calls[i].fn = "MaxwellianCollisionFrequencies" =>
          /\ AgreesWith(calls[i], solar_corona) # AgreesWith(calls[i], solar_wind)
          /\ calls[i].line < 298 => AgreesWith(calls[i], ns["solar_corona"])
          /\ calls[i].line >= 298 => AgreesWith(calls[i], ns["solar_wind"])

C10_Witness ==
    \E i \in DOMAIN calls :
        /\ calls[i].fn = "MaxwellianCollisionFrequencies"
        /\ calls[i].line = 315
        /\ AgreesWith(calls[i], solar_wind)

====
